---------------------------- MODULE Spec2Model ----------------------------
(***************************************************************************)
(* Model of src/bot.py: the resume intake bot.                             *)
(*                                                                         *)
(* A Python str is a sequence of characters; a character is a one-element  *)
(* TLA+ string.  The three characters that have no TLA+ literal are the    *)
(* named tokens SHY (U+00AD), ZWSP (U+200B) and NBSP (U+00A0).             *)
(***************************************************************************)
EXTENDS Integers, Sequences, FiniteSets, TLC

\* ------------------------------------------------------------------------
\* Characters
\* ------------------------------------------------------------------------
SP == " "
TAB == "\t"
CR == "\r"
LF == "\n"
FF == "\f"
SHY == "SHY"
ZWSP == "ZWSP"
NBSP == "NBSP"
NoChar == "NoChar"

\* str.isspace() on the characters of the model: U+00A0 is white space for
\* Python, U+200B and U+00AD are not.
IsSpace(c) == c \in {SP, TAB, CR, LF, FF, NBSP}

Min(a, b) == IF a <= b THEN a ELSE b

\* A function with domain 1..n, as the sequence (tuple) it is.
Str(f) == f \o <<>>

\* A function as the table of its values.
Table(f) == f @@ <<>>

\* ------------------------------------------------------------------------
\* Python str operations, as bot.py uses them
\* ------------------------------------------------------------------------

\* c * n
Rep(c, n) == Str([i \in 1..n |-> c])

\* A slice that takes no notice of its end.
PrefixIgnoresEnd(s, n) == s

\* s[:n] for n >= 0
Prefix(s, n) == SubSeq(s, 1, Min(n, Len(s)))

\* s[n:] for n >= 0
Suffix(s, n) == SubSeq(s, Min(n, Len(s)) + 1, Len(s))

\* s.rfind(c, start, end): the highest 0-based index i, start <= i < end,
\* with s[i] = c, or -1.
rfind(s, c, start, end) ==
    LET hi == Min(end, Len(s))
        S == {i \in start..(hi - 1) : s[i + 1] = c}
    IN  IF S = {} THEN -1 ELSE CHOOSE i \in S : \A j \in S : j <= i

\* s.lstrip()
lstrip(s) ==
    IF \A i \in 1..Len(s) : IsSpace(s[i]) THEN <<>>
    ELSE LET first == CHOOSE i \in 1..Len(s) :
                         /\ ~IsSpace(s[i])
                         /\ \A j \in 1..(i - 1) : IsSpace(s[j])
         IN  SubSeq(s, first, Len(s))

\* s.rstrip()
rstrip(s) ==
    IF \A i \in 1..Len(s) : IsSpace(s[i]) THEN <<>>
    ELSE LET last == CHOOSE i \in 1..Len(s) :
                        /\ ~IsSpace(s[i])
                        /\ \A j \in (i + 1)..Len(s) : IsSpace(s[j])
         IN  SubSeq(s, 1, last)

\* s.strip()
strip(s) == lstrip(rstrip(s))

\* s.replace(old, new) for a one-character old; new is a string (<<>> deletes).
ReplaceChar(s, old, new) ==
    IF new = <<>> THEN SelectSeq(s, LAMBDA c : c # old)
    ELSE Str([i \in 1..Len(s) |-> IF s[i] = old THEN new[1] ELSE s[i]])

\* Each character of s paired with the one and the two before it: what a
\* left-to-right regular expression scan has seen when it reaches s[i].
WithPrev(s) ==
    Str([i \in 1..Len(s) |->
            <<s[i],
              IF i > 1 THEN s[i - 1] ELSE NoChar,
              IF i > 2 THEN s[i - 2] ELSE NoChar>>])

Chars(ps) == Str([i \in 1..Len(ps) |-> ps[i][1]])

\* re.sub(r"\r\n?", "\n", s): every CR becomes LF and swallows an LF that
\* follows it directly.
SubCRLF(s) ==
    LET kept == SelectSeq(WithPrev(s), LAMBDA p : ~(p[1] = LF /\ p[2] = CR))
    IN  Str([i \in 1..Len(kept) |-> IF kept[i][1] = CR THEN LF ELSE kept[i][1]])

\* re.sub(r" +", " ", s): the tab left out of the character class.
SubBlanksSpacesOnly(s) ==
    Chars(SelectSeq(WithPrev(s), LAMBDA p : ~(p[1] = SP /\ p[2] = SP)))

\* re.sub(r"[\t ]+", " ", s): a run of tabs and spaces becomes one space.
SubBlanks(s) ==
    LET kept == SelectSeq(WithPrev(s),
                          LAMBDA p : ~(p[1] \in {TAB, SP} /\ p[2] \in {TAB, SP}))
    IN  Str([i \in 1..Len(kept) |-> IF kept[i][1] = TAB THEN SP ELSE kept[i][1]])

\* re.sub(r"\n +", "\n", s): the spaces that directly follow an LF go.
\* A space run is matched whole, so a space goes when the run it is in
\* starts right after an LF.
SubLeading(s) ==
    LET n == Len(s)
        RunStart(i) == IF \A j \in 1..i : s[j] = SP THEN 0
                       ELSE CHOOSE k \in 1..i :
                               /\ s[k] # SP
                               /\ \A j \in (k + 1)..i : s[j] = SP
        Idx == Str([i \in 1..n |-> <<s[i], i>>])
        kept == SelectSeq(Idx, LAMBDA p :
                    ~(/\ p[1] = SP
                      /\ RunStart(p[2]) > 0
                      /\ s[RunStart(p[2])] = LF))
    IN  Str([i \in 1..Len(kept) |-> kept[i][1]])

\* re.sub(r"\n{3,}", "\n\n", s): of a run of three or more LF, two stay.
SubBlankLines(s) ==
    Chars(SelectSeq(WithPrev(s),
                    LAMBDA p : ~(p[1] = LF /\ p[2] = LF /\ p[3] = LF)))

\* Python's None where a str is expected (Optional[str]): a one-element
\* sequence whose element is no character.
None == <<"<None>">>

\* "not x" for an Optional[str]
Falsy(x) == x = None \/ x = <<>>

\* normalize_text with lines 44 and 45 the other way round: the blank
\* lines are collapsed before the spaces after a line feed are removed.
normalize_text_blank_lines_first(s) ==
    IF Falsy(s) THEN <<>>
    ELSE LET c1 == ReplaceChar(ReplaceChar(ReplaceChar(s, SHY, <<>>),
                                           ZWSP, <<>>), NBSP, <<SP>>)
             c2 == SubCRLF(c1)
             c3 == SubBlanks(c2)
             c4 == SubBlankLines(c3)
             c5 == SubLeading(c4)
         IN  strip(c5)

\* src/bot.py normalize_text
normalize_text(s) ==
    IF Falsy(s) THEN <<>>
    ELSE LET c1 == ReplaceChar(ReplaceChar(ReplaceChar(s, SHY, <<>>),
                                           ZWSP, <<>>), NBSP, <<SP>>)
             c2 == SubCRLF(c1)
             c3 == SubBlanks(c2)
             c4 == SubLeading(c3)
             c5 == SubBlankLines(c4)
         IN  strip(c5)


\* ------------------------------------------------------------------------
\* Extractors and the file extension (lines 49-73)
\* ------------------------------------------------------------------------

\* sep.join(parts) for a one-character separator
RECURSIVE Join(_, _)
Join(sep, parts) ==
    IF parts = <<>> THEN <<>>
    ELSE IF Len(parts) = 1 THEN parts[1]
    ELSE parts[1] \o <<sep>> \o Join(sep, Tail(parts))

\* What a function call ends in: a value returned or an exception raised.
Returned(v) == [raised |-> FALSE, value |-> v]
Raised == [raised |-> TRUE, value |-> <<>>]

\* A buffer is what the three parsers make of it: file_buffer.pdfminer is
\* the outcome of pdfminer's extract_text, file_buffer.pypdf that of
\* PdfReader and of each page's extract_text (a str or None per page),
\* file_buffer.docx that of DocxDocument and its paragraphs' texts.

\* lines 55-58: the page-by-page strategy
PdfFallback(file_buffer) ==
    IF file_buffer.pypdf.raised THEN Raised
    ELSE LET page_texts == [i \in 1..Len(file_buffer.pypdf.value) |->
                               IF Falsy(file_buffer.pypdf.value[i]) THEN <<>>
                               ELSE file_buffer.pypdf.value[i]]
         IN  Returned(normalize_text(Join(LF, page_texts)))

\* line 52: whether the primary strategy's output is returned
PrimaryTaken(primary) == ~Falsy(primary)

\* src/bot.py extract_text_from_pdf
extract_text_from_pdf(file_buffer) ==
    IF file_buffer.pdfminer.raised THEN Raised
    ELSE IF PrimaryTaken(file_buffer.pdfminer.value)
    THEN Returned(normalize_text(file_buffer.pdfminer.value))
    ELSE PdfFallback(file_buffer)

\* src/bot.py extract_text_from_docx
extract_text_from_docx(file_buffer) ==
    IF file_buffer.docx.raised THEN Raised
    ELSE LET paragraphs == file_buffer.docx.value
         IN  Returned(normalize_text(
                 Join(LF, SelectSeq(paragraphs, LAMBDA p : ~Falsy(p)))))

Upper == <<"A", "B", "C", "D", "E", "F", "G", "H", "I", "J", "K", "L", "M",
           "N", "O", "P", "Q", "R", "S", "T", "U", "V", "W", "X", "Y", "Z">>
Lower == <<"a", "b", "c", "d", "e", "f", "g", "h", "i", "j", "k", "l", "m",
           "n", "o", "p", "q", "r", "s", "t", "u", "v", "w", "x", "y", "z">>

\* s.lower()
lower(s) ==
    Str([i \in 1..Len(s) |->
            IF \E k \in 1..26 : Upper[k] = s[i]
            THEN Lower[CHOOSE k \in 1..26 : Upper[k] = s[i]]
            ELSE s[i]])

\* s.rsplit(".", 1)[1] for an s that holds a dot: what follows the last dot
AfterLastDot(s) == Suffix(s, rfind(s, ".", 0, Len(s)) + 1)

PDF == <<"p", "d", "f">>
DOCX == <<"d", "o", "c", "x">>

\* The extension taken after the first dot, not the last: split for rsplit.
get_file_extension_first_dot(document) ==
    IF Falsy(document.file_name) THEN None
    ELSE IF \A i \in 1..Len(document.file_name) : document.file_name[i] # "."
    THEN None
    ELSE LET name == document.file_name
             dot == CHOOSE i \in 1..Len(name) :
                       name[i] = "." /\ \A j \in 1..(i - 1) : name[j] # "."
             after == Suffix(name, dot)
             stop == IF \E i \in 1..Len(after) : after[i] = "."
                     THEN (CHOOSE i \in 1..Len(after) :
                              after[i] = "." /\ \A j \in 1..(i - 1) : after[j] # ".") - 1
                     ELSE Len(after)
         IN  lower(Prefix(after, stop))

\* src/bot.py get_file_extension
get_file_extension(document) ==
    IF Falsy(document.file_name) THEN None
    ELSE IF \A i \in 1..Len(document.file_name) : document.file_name[i] # "."
    THEN None
    ELSE lower(AfterLastDot(document.file_name))

\* ------------------------------------------------------------------------
\* The chunker and the page messages (handle_resume_file, lines 125-149)
\* ------------------------------------------------------------------------

\* The payload budget a digit short.
max_payload_length_typo == 3500 \div 10

max_payload_length == 3500

\* split_at with the last resort of line 139 set to the end of the text
\* instead of the budget.
SplitAtUnbounded(rest) ==
    LET nl == rfind(rest, LF, 0, max_payload_length)
        sp == rfind(rest, SP, 0, max_payload_length)
    IN  IF nl # -1 THEN nl
        ELSE IF sp # -1 THEN sp
        ELSE Len(rest)

\* split_at with the searches of lines 135 and 137 taking in offset
\* max_payload_length itself.
SplitAtBoundaryIncluded(rest) ==
    LET nl == rfind(rest, LF, 0, max_payload_length + 1)
        sp == rfind(rest, SP, 0, max_payload_length + 1)
    IN  IF nl # -1 THEN nl
        ELSE IF sp # -1 THEN sp
        ELSE max_payload_length

\* split_at with lines 135 and 137 the other way round: a space is looked
\* for first.
SplitAtSpaceFirst(rest) ==
    LET sp == rfind(rest, SP, 0, max_payload_length)
        nl == rfind(rest, LF, 0, max_payload_length)
    IN  IF sp # -1 THEN sp
        ELSE IF nl # -1 THEN nl
        ELSE max_payload_length

\* split_at after lines 135-139, 0-based.
SplitAt(rest) ==
    LET nl == rfind(rest, LF, 0, max_payload_length)
        sp == rfind(rest, SP, 0, max_payload_length)
    IN  IF nl # -1 THEN nl
        ELSE IF sp # -1 THEN sp
        ELSE max_payload_length

\* line 141: chunk = remaining[:split_at].rstrip()
ChunkOf(rest) == rstrip(Prefix(rest, SplitAt(rest)))

\* The rest taken from one past split_at: the character at the cut is
\* skipped whatever it is.
RestOfSkipsCut(rest) == lstrip(Suffix(rest, SplitAt(rest) + 1))

\* The rest with its leading white space left on: line 143 without lstrip().
RestOfUnstripped(rest) == Suffix(rest, SplitAt(rest))

\* line 143: remaining = remaining[split_at:].lstrip()
RestOf(rest) == lstrip(Suffix(rest, SplitAt(rest)))

\* The while loop of lines 130-143, from the loop's state (remaining, chunks).
RECURSIVE ChunkLoop(_, _)
ChunkLoop(rest, done) ==
    IF rest = <<>> THEN done
    ELSE IF Len(rest) <= max_payload_length THEN Append(done, rest)
    ELSE ChunkLoop(RestOf(rest), Append(done, ChunkOf(rest)))

\* str(index) for index >= 0, as the f-string of line 146 formats it.
RECURSIVE Digits(_)
Digits(n) ==
    LET d == <<"0", "1", "2", "3", "4", "5", "6", "7", "8", "9">>[(n % 10) + 1]
    IN  IF n < 10 THEN <<d>> ELSE Append(Digits(n \div 10), d)

\* The bullet U+2022 of the page header, one character.
BULLET == "BULLET"

\* The Cyrillic word for "page" in the header of line 146: eight letters,
\* written here with the Latin letters of its transliteration.
PageWord == <<"S", "t", "r", "a", "n", "i", "c", "a">>

\* The header with the pages counted from 0: enumerate without start=1.
HeaderZeroBased(label, i) ==
    label \o <<SP, BULLET, SP>> \o PageWord \o <<SP>> \o Digits(i - 1)
        \o <<LF, LF>>

\* line 146: header = f"{date_label} <bullet> <page word> {index}\n\n"
Header(label, i) ==
    label \o <<SP, BULLET, SP>> \o PageWord \o <<SP>> \o Digits(i)
        \o <<LF, LF>>

\* The body limit taken from the payload budget instead of the ceiling.
MaxBodyLengthOfBudget(header) == max_payload_length - Len(header)

\* line 147: max_body_length = 4096 - len(header)
MaxBodyLength(header) == 4096 - Len(header)

\* lines 146-149: the text of the page message of chunk number index.
PageMessage(label, i, chunk) ==
    LET header == Header(label, i)
        body == Prefix(chunk, MaxBodyLength(header))
    IN  header \o body


\* line 125: date_label = datetime.now().strftime("%Y-%m-%d"): ten
\* characters whatever the day (datetime stops at the year 9999), and the
\* header's length is all the handler takes from it.
DateLabels ==
    { <<"2", "0", "2", "6", "-", "1", "1", "-", "0", "4">> }

\* ------------------------------------------------------------------------
\* State
\* ------------------------------------------------------------------------
VARIABLES
    \* the conversation: the FSM state MemoryStorage keeps for the chat, and
    \* one task per update received, in the order of arrival
    fsm, tasks,
    \* lines 121-149 of handle_resume_file run on one extracted text: the
    \* handler's local variables and its position
    \* (split_at is -1 until line 135 first assigns it)
    text, date_label, remaining, split_at, chunks, index, pages, pc,
    \* one call of an extractor on one buffer: the buffer, the extractor
    \* called, whether the page-by-page strategy has run, how the call
    \* ended, and its position
    upload, extractor, fallback_ran, result, xpc,
    \* normalize_text called on a string and then on what it returned: the
    \* string given, the two values returned, and the position
    given, normalized, renormalized, npc

conversation == <<fsm, tasks>>
extraction == <<upload, extractor, fallback_ran, result, xpc>>
chunker == <<text, date_label, remaining, split_at, chunks, index, pages, pc>>
normalizer == <<given, normalized, renormalized, npc>>
vars == <<fsm, tasks, text, date_label, remaining, split_at, chunks, index,
          pages, pc, upload, extractor, fallback_ran, result, xpc,
          given, normalized, renormalized, npc>>

\* The chunker's variables where no text is being chunked.
ChunkerOff ==
    /\ text = <<>>
    /\ date_label = <<>>
    /\ remaining = <<>>
    /\ split_at = -1
    /\ chunks = <<>>
    /\ index = 0
    /\ pages = <<>>
    /\ pc = "off"

\* The extraction's variables where no extractor is called.
ExtractionOff ==
    /\ upload = [pdfminer |-> Raised, pypdf |-> Raised, docx |-> Raised]
    /\ extractor = "none"
    /\ fallback_ran = FALSE
    /\ result = Raised
    /\ xpc = "off"

\* The normalizer's variables where normalize_text is not called by itself.
NormalizerOff ==
    /\ given = <<>>
    /\ normalized = <<>>
    /\ renormalized = <<>>
    /\ npc = "off"

\* The conversation's variables where no conversation is modelled.
ConversationOff ==
    /\ fsm = "idle"
    /\ tasks = <<>>

\* ------------------------------------------------------------------------
\* Bounds and inputs of the conversation
\* ------------------------------------------------------------------------

\* The number of updates the chat sends.
MaxUpdates == 3

\* message.document is None
NoDocument == [is_none |-> TRUE, file_name |-> None]

Document(file_name) == [is_none |-> FALSE, file_name |-> file_name]

\* File names without an extension, with an unsupported one after a
\* supported one, and with the two supported ones.
FileNames ==
    { <<"c", "v">>,
      <<"c", "v", ".", "p", "d", "f", ".", "t", "x", "t">>,
      <<"c", "v", ".", "P", "D", "F">>,
      <<"c", "v", ".", "d", "o", "c", "x">> }

\* The updates of the chat: the three commands, a plain text, and a
\* document under each file name (sent without a caption).
Messages ==
    { [text |-> t, document |-> NoDocument] :
        t \in {"/start", "/resume", "/search", "hello"} }
    \cup { [text |-> "", document |-> Document(n)] : n \in FileNames }

\* The buffers bot.download may deliver: bytes that are no document, a PDF
\* with a text layer, a PDF whose text only the page-by-page strategy finds,
\* a PDF without text, a PDF of more than one message, and a DOCX.
Buffers ==
    { [pdfminer |-> Raised, pypdf |-> Raised, docx |-> Raised],
      [pdfminer |-> Returned(<<"H", "i", LF, "W", FF>>),
       pypdf |-> Returned(<< <<"H", "i", SP, "W">> >>),
       docx |-> Raised],
      [pdfminer |-> Returned(<<>>),
       pypdf |-> Returned(<< <<"H", "i">>, None, <<"W">> >>),
       docx |-> Raised],
      [pdfminer |-> Returned(<<>>),
       pypdf |-> Returned(<< None >>),
       docx |-> Raised],
      [pdfminer |-> Returned(Rep("a", max_payload_length) \o <<SP, "b", FF>>),
       pypdf |-> Returned(<< Rep("a", max_payload_length) \o <<SP, "b">> >>),
       docx |-> Raised],
      [pdfminer |-> Raised, pypdf |-> Raised,
       docx |-> Returned(<< <<>>, <<"N", "a", "m", "e">>, <<>>, <<"G", "o">> >>)] }

\* ------------------------------------------------------------------------
\* The conversation (lines 85-186)
\* ------------------------------------------------------------------------

\* The text of a reply: one of the handlers' literals, or a page message.
Literal(name) == [literal |-> name, page |-> <<>>]
Page(message) == [literal |-> "page", page |-> message]

\* A handler's task when the dispatcher calls it: the handler's local
\* variables, what it has sent with message.answer (replies), whether it has
\* run line 119 (cleared), and how its try block ended (extraction).
Task(handler, message) ==
    [handler |-> handler, message |-> message, pc |-> "called",
     extension |-> None, extraction |-> "none", text |-> <<>>,
     date_label |-> <<>>, chunks |-> <<>>, index |-> 0,
     replies |-> <<>>, cleared |-> FALSE]

\* message.answer(...) issued and awaited at position pc
Answer(tk, reply, at) ==
    [tk EXCEPT !.replies = Append(@, reply), !.pc = at]

\* lines 181-184: the first registered handler whose filters pass
Route(message) ==
    IF message.text = "/start" THEN "handle_start_command"
    ELSE IF message.text = "/resume" THEN "handle_resume_command"
    ELSE IF fsm = "waiting_for_file" /\ ~message.document.is_none
    THEN "handle_resume_file"
    ELSE IF message.text = "/search" THEN "handle_search_command"
    ELSE "unhandled"

Init ==
    /\ fsm = "idle"
    /\ tasks = <<>>
    /\ ChunkerOff
    /\ ExtractionOff
    /\ NormalizerOff

\* lines 167-172, to the await
handle_start_command(message) ==
    /\ Len(tasks) < MaxUpdates
    /\ Route(message) = "handle_start_command"
    /\ tasks' = Append(tasks, Answer(Task("handle_start_command", message),
                                     Literal("start_help"), "answer_start"))
    /\ UNCHANGED fsm
    /\ UNCHANGED <<chunker, extraction, normalizer>>

\* lines 85-89, to the await of line 87.  state.set_state of MemoryStorage
\* does not suspend.
handle_resume_command(message) ==
    /\ Len(tasks) < MaxUpdates
    /\ Route(message) = "handle_resume_command"
    /\ fsm' = "waiting_for_file"
    /\ tasks' = Append(tasks, Answer(Task("handle_resume_command", message),
                                     Literal("resume_prompt"), "answer_prompt"))
    /\ UNCHANGED <<chunker, extraction, normalizer>>

\* lines 152-164, to the await
handle_search_command(message) ==
    /\ Len(tasks) < MaxUpdates
    /\ Route(message) = "handle_search_command"
    /\ tasks' = Append(tasks, Answer(Task("handle_search_command", message),
                                     Literal("vacancies"), "answer_search"))
    /\ UNCHANGED fsm
    /\ UNCHANGED <<chunker, extraction, normalizer>>

\* No registered handler's filters pass: the update is dropped.
Unhandled(message) ==
    /\ Len(tasks) < MaxUpdates
    /\ Route(message) = "unhandled"
    /\ tasks' = Append(tasks, [Task("unhandled", message) EXCEPT !.pc = "returned"])
    /\ UNCHANGED fsm
    /\ UNCHANGED <<chunker, extraction, normalizer>>

\* lines 92-104: handle_resume_file from its call to its first await
ResumeFileCalled(message) ==
    LET tk == Task("handle_resume_file", message)
        document == message.document
    IN  IF document.is_none
        THEN Answer(tk, Literal("must_be_document"), "answer_must_be_document")
        ELSE LET extension == get_file_extension(document)
             IN  IF extension \notin {PDF, DOCX}
                 THEN Answer([tk EXCEPT !.extension = extension],
                             Literal("unsupported_format"), "answer_unsupported")
                 ELSE [tk EXCEPT !.extension = extension, !.pc = "get_file"]

handle_resume_file(message) ==
    /\ Len(tasks) < MaxUpdates
    /\ Route(message) = "handle_resume_file"
    /\ tasks' = Append(tasks, ResumeFileCalled(message))
    /\ UNCHANGED fsm
    /\ UNCHANGED <<chunker, extraction, normalizer>>

\* line 104: bot.get_file returns, or raises (the file is too big for the
\* Bot API, the network fails); nothing of the handler catches it.
GetFileReturns(t) ==
    /\ tasks[t].pc = "get_file"
    /\ \E ok \in BOOLEAN :
          tasks' = [tasks EXCEPT ![t].pc = IF ok THEN "download" ELSE "raised"]
    /\ UNCHANGED fsm
    /\ UNCHANGED <<chunker, extraction, normalizer>>

\* What the two extractors make of each buffer, worked out once.
Extracted ==
    Table([buffer \in Buffers |->
              [pdf |-> extract_text_from_pdf(buffer),
               docx |-> extract_text_from_docx(buffer)]])

\* lines 110-113
Extract(extension, buffer) ==
    IF extension = PDF THEN Extracted[buffer].pdf ELSE Extracted[buffer].docx

\* The chunks of each text an extractor can return, worked out once.
Chunked ==
    Table([extracted \in {Extracted[b].pdf.value : b \in Buffers}
                         \cup {Extracted[b].docx.value : b \in Buffers} |->
              ChunkLoop(extracted, <<>>)])

\* The except clause left out: the exception leaves the handler.
ExtractionRaisedUncaught(tk) ==
    [tk EXCEPT !.extraction = "raised", !.pc = "raised"]

\* lines 114-116: the except clause, to its await
ExtractionRaised(tk) ==
    Answer([tk EXCEPT !.extraction = "raised"],
           Literal("could_not_process"), "answer_failed")

\* lines 125-149 without the test of line 121: an empty text goes to the
\* loops, which send nothing.
ExtractionReturnedUnchecked(tk, extracted, label) ==
    LET cs == Chunked[extracted]
        done == [tk EXCEPT !.extraction = "returned", !.cleared = TRUE,
                           !.text = extracted, !.date_label = label,
                           !.chunks = cs]
    IN  IF cs = <<>> THEN [done EXCEPT !.pc = "returned"]
        ELSE Answer([done EXCEPT !.index = 1],
                    Page(PageMessage(label, 1, cs[1])), "answer_page")

\* lines 121-149, to the first await: no text, or the chunks and page 1
ExtractionReturned(tk, extracted, label) ==
    IF Falsy(extracted)
    THEN Answer([tk EXCEPT !.extraction = "returned", !.cleared = TRUE,
                           !.text = extracted],
                Literal("no_readable_text"), "answer_no_text")
    ELSE LET cs == Chunked[extracted]
         IN  Answer([tk EXCEPT !.extraction = "returned", !.cleared = TRUE,
                               !.text = extracted, !.date_label = label,
                               !.chunks = cs, !.index = 1],
                    Page(PageMessage(label, 1, cs[1])), "answer_page")

\* lines 106-149: bot.download returns or raises; on its return the try
\* block runs, and the handler runs on to its next await.  state.clear of
\* MemoryStorage (line 119) does not suspend.
DownloadReturns(t) ==
    /\ tasks[t].pc = "download"
    /\ \/ /\ tasks' = [tasks EXCEPT ![t].pc = "raised"]
          /\ UNCHANGED fsm
       \/ \E buffer \in Buffers :
            LET r == Extract(tasks[t].extension, buffer)
            IN  IF r.raised
                THEN /\ tasks' = [tasks EXCEPT ![t] = ExtractionRaised(@)]
                     /\ UNCHANGED fsm
                ELSE /\ \E label \in DateLabels :
                          tasks' = [tasks EXCEPT
                                      ![t] = ExtractionReturned(@, r.value, label)]
                     /\ fsm' = "idle"
    /\ UNCHANGED <<chunker, extraction, normalizer>>

\* lines 116-119: the reply of the except clause is delivered, the handler
\* returns through the finally clause
FailedAnswerReturns(t) ==
    /\ tasks[t].pc = "answer_failed"
    /\ fsm' = "idle"
    /\ tasks' = [tasks EXCEPT ![t].cleared = TRUE, ![t].pc = "returned"]
    /\ UNCHANGED <<chunker, extraction, normalizer>>

\* lines 145-149: a page is delivered; the next one is sent, or the
\* handler returns
PageAnswerReturns(t) ==
    /\ tasks[t].pc = "answer_page"
    /\ LET tk == tasks[t]
       IN  IF tk.index < Len(tk.chunks)
           THEN tasks' = [tasks EXCEPT ![t] =
                    Answer([tk EXCEPT !.index = tk.index + 1],
                           Page(PageMessage(tk.date_label, tk.index + 1,
                                            tk.chunks[tk.index + 1])),
                           "answer_page")]
           ELSE tasks' = [tasks EXCEPT ![t].pc = "returned"]
    /\ UNCHANGED fsm
    /\ UNCHANGED <<chunker, extraction, normalizer>>

\* A reply after which the handler has nothing left to do is delivered.
AnswerReturns(t) ==
    /\ tasks[t].pc \in {"answer_start", "answer_prompt", "answer_search",
                        "answer_must_be_document", "answer_unsupported",
                        "answer_no_text"}
    /\ tasks' = [tasks EXCEPT ![t].pc = "returned"]
    /\ UNCHANGED fsm
    /\ UNCHANGED <<chunker, extraction, normalizer>>

\* line 186: polling hands every update to a task of its own; the tasks
\* run interleaved, switching at their awaits.
Next ==
    \/ \E message \in Messages : handle_start_command(message)
    \/ \E message \in Messages : handle_resume_command(message)
    \/ \E message \in Messages : handle_search_command(message)
    \/ \E message \in Messages : handle_resume_file(message)
    \/ \E message \in Messages : Unhandled(message)
    \/ \E t \in 1..Len(tasks) : GetFileReturns(t)
    \/ \E t \in 1..Len(tasks) : DownloadReturns(t)
    \/ \E t \in 1..Len(tasks) : FailedAnswerReturns(t)
    \/ \E t \in 1..Len(tasks) : PageAnswerReturns(t)
    \/ \E t \in 1..Len(tasks) : AnswerReturns(t)

Spec == Init /\ [][Next]_vars

\* ------------------------------------------------------------------------
\* Bounds and inputs of the chunker
\* ------------------------------------------------------------------------

\* How far from the budget, on either side, a first word may end.
Slack == 1

\* The longest text has one character more than this many full chunks.
MaxPages == 10

Seps == { <<SP>>, <<LF>>, <<LF, LF>>, <<SP, LF>> }

\* Where a first word may end: near the start, and within Slack of the budget.
FirstLens == (1..Slack) \cup ((max_payload_length - Slack)..(max_payload_length + Slack))

\* A second word that, after a short first word and a one-character
\* separator, ends within Slack of the budget.
SecondLens == (max_payload_length - 2 - Slack)..(max_payload_length - 2 + Slack)

\* The raw texts an extractor hands to normalize_text: one, two or three
\* words with white space between them, one long unbroken word, and two
\* texts with nothing to read.
ChunkRaws ==
    { Rep("a", n1) : n1 \in FirstLens }
    \cup { Rep("a", n1) \o s1 \o Rep("b", n2) :
             n1 \in FirstLens, s1 \in Seps,
             n2 \in {1, max_payload_length - 1, max_payload_length + 1} }
    \cup { Rep("a", n1) \o s1 \o Rep("b", n2) \o s2 \o Rep("c", n3) :
             n1 \in 1..Slack, s1 \in Seps, n2 \in SecondLens,
             s2 \in {<<SP>>, <<LF>>}, n3 \in {1, max_payload_length + 1} }
    \cup { <<>>, <<FF>>, Rep("a", MaxPages * max_payload_length + 1) }

\* ------------------------------------------------------------------------
\* Lines 121-149 of handle_resume_file, one step at a time
\* ------------------------------------------------------------------------
InitChunk ==
    /\ ConversationOff
    /\ ExtractionOff
    /\ NormalizerOff
    /\ text \in { normalize_text(raw) : raw \in ChunkRaws }
    /\ date_label = <<>>
    /\ remaining = <<>>
    /\ split_at = -1
    /\ chunks = <<>>
    /\ index = 0
    /\ pages = <<>>
    /\ pc = "check_text"

\* lines 121-128
CheckText ==
    /\ pc = "check_text"
    /\ IF text = <<>>
       THEN /\ pc' = "no_text"
            /\ UNCHANGED <<date_label, remaining>>
       ELSE /\ \E d \in DateLabels : date_label' = d
            /\ remaining' = text
            /\ pc' = "while"
    /\ UNCHANGED <<text, split_at, chunks, index, pages>>
    /\ UNCHANGED <<conversation, extraction, normalizer>>

\* lines 130-143: one pass of the while loop
WhileStep ==
    /\ pc = "while"
    /\ IF remaining = <<>>
       THEN /\ pc' = "for"
            /\ index' = 1
            /\ UNCHANGED <<remaining, split_at, chunks>>
       ELSE IF Len(remaining) <= max_payload_length
       THEN /\ chunks' = Append(chunks, remaining)
            /\ pc' = "for"
            /\ index' = 1
            /\ UNCHANGED <<remaining, split_at>>
       ELSE /\ split_at' = SplitAt(remaining)
            /\ chunks' = Append(chunks, ChunkOf(remaining))
            /\ remaining' = RestOf(remaining)
            /\ UNCHANGED <<pc, index>>
    /\ UNCHANGED <<text, date_label, pages>>
    /\ UNCHANGED <<conversation, extraction, normalizer>>

\* lines 145-149: one pass of the for loop
ForStep ==
    /\ pc = "for"
    /\ IF index <= Len(chunks)
       THEN /\ pages' = Append(pages, PageMessage(date_label, index, chunks[index]))
            /\ index' = index + 1
            /\ UNCHANGED pc
       ELSE /\ pc' = "done"
            /\ UNCHANGED <<pages, index>>
    /\ UNCHANGED <<text, date_label, remaining, split_at, chunks>>
    /\ UNCHANGED <<conversation, extraction, normalizer>>

NextChunk == CheckText \/ WhileStep \/ ForStep

SpecChunk == InitChunk /\ [][NextChunk]_vars

\* ENABLED <<WhileStep>>_vars: a pass of the while loop, or its end, can
\* always be taken where the handler stands at the loop, and changes pc,
\* chunks or remaining.
WhileStepEnabled == pc = "while"

\* WF_vars(WhileStep), written out with WhileStepEnabled.
FairWhileStep == []<>(~WhileStepEnabled) \/ []<><<WhileStep>>_vars

\* The handler's task is run on until it returns: asyncio leaves no ready
\* task unscheduled, and lines 121-143 do not even suspend.
SpecChunkFair ==
    SpecChunk /\ WF_vars(CheckText) /\ FairWhileStep /\ WF_vars(ForStep)


\* ------------------------------------------------------------------------
\* Bounds and inputs of the extractors
\* ------------------------------------------------------------------------

\* The longest output of the primary strategy, in characters.
MaxRawLen == 2

\* The most pages of a PDF and the most paragraphs of a DOCX.
MaxParts == 2

\* The strings of at most n characters of alphabet
RECURSIVE Strings(_, _)
Strings(alphabet, n) ==
    IF n = 0 THEN {<<>>}
    ELSE LET shorter == Strings(alphabet, n - 1)
         IN  shorter \cup {Append(s, c) : s \in shorter, c \in alphabet}

\* The sequences of 1 to n elements of parts
RECURSIVE Lists(_, _)
Lists(parts, n) ==
    IF n = 1 THEN {<<p>> : p \in parts}
    ELSE LET shorter == Lists(parts, n - 1)
         IN  shorter \cup {Append(l, p) : l \in shorter, p \in parts}

\* What pdfminer hands back: text, line breaks, and the form feed it ends
\* every page with.
PrimaryTexts == Strings({"a", SP, LF, FF}, MaxRawLen)

\* What a page's extract_text hands back
PageTexts == {None, <<>>, <<"a">>, <<SP>>}

\* What a paragraph's text is
ParagraphTexts == {<<>>, <<"a">>, <<SP>>}

PdfBuffers ==
    { [pdfminer |-> p, pypdf |-> q, docx |-> Raised] :
        p \in {Raised} \cup {Returned(raw) : raw \in PrimaryTexts},
        q \in {Raised} \cup {Returned(l) : l \in Lists(PageTexts, MaxParts)} }

DocxBuffers ==
    { [pdfminer |-> Raised, pypdf |-> Raised, docx |-> d] :
        d \in {Returned(<<>>)}
              \cup {Returned(l) : l \in Lists(ParagraphTexts, MaxParts)} }

\* ------------------------------------------------------------------------
\* The extractors (lines 49-65), one call
\* ------------------------------------------------------------------------
InitExtract ==
    /\ ConversationOff
    /\ ChunkerOff
    /\ NormalizerOff
    /\ upload \in PdfBuffers \cup DocxBuffers
    /\ extractor \in {"pdf", "docx"}
    /\ fallback_ran = FALSE
    /\ result = Raised
    /\ xpc = "called"

\* lines 50-53: the primary strategy
PdfPrimaryStep ==
    /\ xpc = "called"
    /\ extractor = "pdf"
    /\ IF upload.pdfminer.raised
       THEN /\ xpc' = "raised"
            /\ UNCHANGED result
       ELSE IF PrimaryTaken(upload.pdfminer.value)
       THEN /\ result' = Returned(normalize_text(upload.pdfminer.value))
            /\ xpc' = "returned"
       ELSE /\ xpc' = "fallback"
            /\ UNCHANGED result
    /\ UNCHANGED <<upload, extractor, fallback_ran>>
    /\ UNCHANGED <<conversation, chunker, normalizer>>

\* lines 55-58: the page-by-page strategy
PdfFallbackStep ==
    /\ xpc = "fallback"
    /\ fallback_ran' = TRUE
    /\ result' = PdfFallback(upload)
    /\ xpc' = IF result'.raised THEN "raised" ELSE "returned"
    /\ UNCHANGED <<upload, extractor>>
    /\ UNCHANGED <<conversation, chunker, normalizer>>

\* lines 61-65
DocxStep ==
    /\ xpc = "called"
    /\ extractor = "docx"
    /\ result' = extract_text_from_docx(upload)
    /\ xpc' = IF result'.raised THEN "raised" ELSE "returned"
    /\ UNCHANGED <<upload, extractor, fallback_ran>>
    /\ UNCHANGED <<conversation, chunker, normalizer>>

NextExtract == PdfPrimaryStep \/ PdfFallbackStep \/ DocxStep

SpecExtract == InitExtract /\ [][NextExtract]_vars


\* ------------------------------------------------------------------------
\* Bounds and inputs of the normalizer
\* ------------------------------------------------------------------------

\* The longest string over the whole alphabet.
MaxNormLen == 4

\* The longest string of letters, spaces, line breaks and form feeds.
MaxLinesLen == 6

\* The strings normalize_text is given: None, the strings of a letter and
\* every character lines 41-45 name, and longer ones of the letter, the
\* space, the line feed and a white space character those lines do not name.
NormalizeInputs ==
    {None}
    \cup Strings({"a", SP, TAB, CR, LF, SHY, ZWSP, NBSP}, MaxNormLen)
    \cup Strings({"a", SP, LF, FF}, MaxLinesLen)
    \cup { <<"a", LF, SP, LF, SP, LF, "b">>,
           <<"a", SP, CR, LF, TAB, SP, "b", NBSP>>,
           <<SP, "a", ZWSP, SP, SHY, SP, "b", CR, CR, CR, "c", LF>>,
           <<"a", LF, TAB, LF, NBSP, LF, CR, "b">> }

\* ------------------------------------------------------------------------
\* normalize_text (lines 37-46), called on a string and on its own result
\* ------------------------------------------------------------------------
InitNormalize ==
    /\ ConversationOff
    /\ ChunkerOff
    /\ ExtractionOff
    /\ given \in NormalizeInputs
    /\ normalized = <<>>
    /\ renormalized = <<>>
    /\ npc = "called"

\* lines 37-46 on the string given
NormalizeStep ==
    /\ npc = "called"
    /\ normalized' = normalize_text(given)
    /\ npc' = "once"
    /\ UNCHANGED <<given, renormalized>>
    /\ UNCHANGED <<conversation, chunker, extraction>>

\* lines 37-46 on the string the first call returned
RenormalizeStep ==
    /\ npc = "once"
    /\ renormalized' = normalize_text(normalized)
    /\ npc' = "twice"
    /\ UNCHANGED <<given, normalized>>
    /\ UNCHANGED <<conversation, chunker, extraction>>

NextNormalize == NormalizeStep \/ RenormalizeStep

SpecNormalize == InitNormalize /\ [][NextNormalize]_vars

\* ------------------------------------------------------------------------
\* Properties of the conversation (Spec)
\* ------------------------------------------------------------------------

\* The replies of handle_resume_file that report how an extraction ended.
OutcomeLiterals == {"could_not_process", "no_readable_text", "page"}

HasReply(tk, literals) ==
    \E i \in 1..Len(tk.replies) : tk.replies[i].literal \in literals

\* C1: once extraction has been attempted, the conversation state is reset
\* before any reply about the extraction's outcome is sent: a task that has
\* sent such a reply has run state.clear().  The code does not keep this
\* where the extraction raises: line 116 replies, line 119 clears after it.
C1_OutcomeReplyAfterClear ==
    \A t \in 1..Len(tasks) :
        HasReply(tasks[t], OutcomeLiterals) => tasks[t].cleared

\* C3: when the extraction step of handle_resume_file raises, the exception
\* does not leave the handler, the one reply of the handler is the generic
\* "could not process" message, no page is sent, and the handler returns
\* with the conversation state idle.
C3_ExtractionFailureIsReported ==
    [][\A t \in 1..Len(tasks') :
          tasks'[t].extraction = "raised" =>
              /\ tasks'[t].pc \in {"answer_failed", "returned"}
              /\ tasks'[t].replies = <<Literal("could_not_process")>>
              /\ (/\ tasks'[t].pc = "returned"
                  /\ t <= Len(tasks)
                  /\ tasks[t].pc # "returned") => fsm' = "idle"]_vars

\* C3 happens: an extraction has raised and its handler has returned.
C3_Witness ==
    \E t \in 1..Len(tasks) :
        /\ tasks[t].extraction = "raised"
        /\ tasks[t].pc = "returned"
        /\ tasks[t].cleared
        /\ fsm = "idle"

\* C4: no error of a request leaves its handler: no task ends in an
\* exception.  The code does not keep this: bot.get_file and bot.download
\* (lines 104-106) are called outside the try block.
C4_NoErrorLeavesHandler ==
    \A t \in 1..Len(tasks) : tasks[t].pc # "raised"

\* C5: while the conversation waits for a file, a message without a
\* document (here: one that is no command either) is answered with the
\* "must be a document" guidance, and the state stays waiting.  The code
\* does not keep this: the F.document filter of line 183 keeps such a
\* message from handle_resume_file.
C5_NonDocumentGetsGuidance ==
    [][(/\ Len(tasks') = Len(tasks) + 1
        /\ fsm = "waiting_for_file"
        /\ tasks'[Len(tasks')].message.document.is_none
        /\ tasks'[Len(tasks')].message.text \notin {"/start", "/resume", "/search"})
       => /\ tasks'[Len(tasks')].replies = <<Literal("must_be_document")>>
          /\ fsm' = "waiting_for_file"]_vars

\* File names whose text after the last dot is neither pdf nor docx, or
\* that hold no dot.
UnsupportedNames ==
    { <<"c", "v">>,
      <<"c", "v", ".", "p", "d", "f", ".", "t", "x", "t">> }

\* File names that end in .pdf or .docx, in either case.
SupportedNames ==
    { <<"c", "v", ".", "P", "D", "F">>,
      <<"c", "v", ".", "d", "o", "c", "x">> }

IsFileTask(tk, names) ==
    /\ tk.handler = "handle_resume_file"
    /\ ~tk.message.document.is_none
    /\ tk.message.document.file_name \in names

\* C6: a document whose extension is neither pdf nor docx (compared without
\* regard to case) is answered with the "unsupported format" reply and
\* nothing else, neither get_file nor download nor an extraction is
\* started for it, and its handler is called with the conversation state
\* waiting for a file and neither at its call nor at its return changes
\* that state; a document with a supported extension, upper case included,
\* is never answered so.
C6_UnsupportedFormatRejected ==
    [][\A t \in 1..Len(tasks') :
          /\ IsFileTask(tasks'[t], UnsupportedNames) =>
                /\ tasks'[t].replies = <<Literal("unsupported_format")>>
                /\ tasks'[t].pc \in {"answer_unsupported", "returned"}
                /\ tasks'[t].extraction = "none"
                /\ ~tasks'[t].cleared
                /\ t > Len(tasks) => (fsm = "waiting_for_file" /\ fsm' = fsm)
                /\ (t <= Len(tasks) /\ tasks[t] # tasks'[t]) => fsm' = fsm
          /\ IsFileTask(tasks'[t], SupportedNames) =>
                ~HasReply(tasks'[t], {"unsupported_format"})]_vars

\* C6 happens: after /resume an unsupported document was rejected, and the
\* supported document sent next, without a second /resume, was extracted.
C6_Witness ==
    /\ Len(tasks) = 3
    /\ tasks[1].handler = "handle_resume_command"
    /\ IsFileTask(tasks[2], UnsupportedNames)
    /\ tasks[2].pc = "returned"
    /\ IsFileTask(tasks[3], SupportedNames)
    /\ tasks[3].extraction = "returned"
    /\ HasReply(tasks[3], {"page"})

\* ------------------------------------------------------------------------
\* Properties of the chunker and the page messages (SpecChunk)
\* ------------------------------------------------------------------------

\* C2: every page message the for loop builds, header and body together,
\* has at most 4096 characters.
C2_PageWithinCeiling ==
    \A i \in 1..Len(pages) : Len(pages[i]) <= 4096

\* C2 happens: a text of more than one chunk has been sent, and a page
\* carries a full chunk of 3500 characters under its header, whole.
C2_Witness ==
    /\ pc = "done"
    /\ Len(pages) = 2
    /\ Len(chunks[1]) = 3500
    /\ pages[1] = Header(date_label, 1) \o chunks[1]
    /\ Len(pages[1]) = 3525

\* C8: every chunk the while loop makes has at most 3500 characters.
C8_ChunkWithinBudget ==
    \A i \in 1..Len(chunks) : Len(chunks[i]) <= 3500

\* C8 happens: one text has been cut at a line break, then at a space, then
\* at the budget for want of either, and the chunk of the last cut is full.
C8_Witness ==
    /\ pc = "done"
    /\ Len(chunks) = 4
    /\ text[Len(chunks[1]) + 1] = LF
    /\ text[Len(chunks[1]) + 1 + Len(chunks[2]) + 1] = SP
    /\ Len(chunks[3]) = 3500
    /\ \A i \in 1..Len(chunks[3]) : ~IsSpace(chunks[3][i])

HasBefore(s, c, n) == \E i \in 1..Min(n, Len(s)) : s[i] = c

\* C9: when the remaining text is longer than the budget and holds both a
\* line break and a space before the 3500-character mark, the pass of the
\* while loop cuts at a line break, the last one before the mark.
C9_LineBreakPreferred ==
    [][(/\ pc = "while"
        /\ Len(remaining) > 3500
        /\ HasBefore(remaining, LF, 3500)
        /\ HasBefore(remaining, SP, 3500))
       => /\ split_at' >= 0
          /\ split_at' < 3500
          /\ remaining[split_at' + 1] = LF
          /\ \A j \in (split_at' + 2)..3500 : remaining[j] # LF]_vars

\* C9 happens: the first cut of a text was made at a line break although a
\* space lies between that line break and the 3500-character mark.
C9_Witness ==
    /\ pc = "while"
    /\ Len(chunks) = 1
    /\ Len(text) > 3500
    /\ split_at >= 0
    /\ text[split_at + 1] = LF
    /\ \E j \in (split_at + 2)..3500 : text[j] = SP

\* C10: a non-empty text of fewer than 3500 characters makes exactly one
\* chunk, the text itself (trimmed, as it already is).
C10_ShortTextOneChunk ==
    (pc \in {"for", "done"} /\ Len(text) < 3500) => chunks = <<strip(text)>>

\* C10 happens: a text one character short of the budget has been sent as
\* one page.
C10_Witness ==
    /\ pc = "done"
    /\ Len(text) = 3499
    /\ chunks = <<text>>
    /\ Len(pages) = 1

\* ------------------------------------------------------------------------
\* Properties of the extractors (SpecExtract)
\* ------------------------------------------------------------------------

\* C7: when extract_text_from_pdf returns, the text it returns is non-empty
\* if the primary strategy's output, or the joined output of the
\* page-by-page strategy, normalizes to a non-empty string; and the
\* page-by-page strategy is skipped only when the primary output is
\* non-empty.  The code does not keep the first part: line 52 tests the raw
\* primary output, which may be non-empty and normalize to nothing.
C7_SomeOutputWhenAvailable ==
    (extractor = "pdf" /\ xpc = "returned") =>
        /\ (\/ normalize_text(upload.pdfminer.value) # <<>>
            \/ /\ ~upload.pypdf.raised
               /\ PdfFallback(upload).value # <<>>) => result.value # <<>>
        /\ ~fallback_ran => upload.pdfminer.value # <<>>

\* ------------------------------------------------------------------------
\* More properties of the chunker and the page messages (SpecChunk)
\* ------------------------------------------------------------------------

\* The characters of s that are no white space, in order.
NonSpace(s) == SelectSeq(s, LAMBDA c : ~IsSpace(c))

\* The elements of the sequence of strings cs one after the other.
RECURSIVE Concat(_)
Concat(cs) == IF cs = <<>> THEN <<>> ELSE cs[1] \o Concat(Tail(cs))

\* s = cs[1] + w1 + cs[2] + w2 + ... + cs[N] for some white-space-only
\* strings w1 .. w(N-1), for a non-empty cs.
RECURSIVE Decomposes(_, _)
Decomposes(s, cs) ==
    IF Len(cs) = 1 THEN s = cs[1]
    ELSE /\ Len(s) >= Len(cs[1])
         /\ SubSeq(s, 1, Len(cs[1])) = cs[1]
         /\ LET after == SubSeq(s, Len(cs[1]) + 1, Len(s))
                lead == Len(after) - Len(lstrip(after))
            IN  \E k \in 0..lead :
                    Decomposes(SubSeq(after, k + 1, Len(after)), Tail(cs))

\* C11: when the while loop has ended, the text is its chunks in order with
\* a white-space-only string (maybe empty) between each two, and the chunks
\* one after the other hold exactly the characters of the text that are no
\* white space, in the same order.
C11_ChunksLoseOnlyWhiteSpace ==
    pc \in {"for", "done"} =>
        /\ chunks # <<>>
        /\ Decomposes(text, chunks)
        /\ NonSpace(Concat(chunks)) = NonSpace(text)

\* C11 happens: a text was cut in two at white space of two characters,
\* which is in neither chunk.
C11_Witness ==
    /\ pc = "done"
    /\ Len(chunks) = 2
    /\ Len(text) = Len(chunks[1]) + 2 + Len(chunks[2])
    /\ IsSpace(text[Len(chunks[1]) + 1])
    /\ IsSpace(text[Len(chunks[1]) + 2])

\* ------------------------------------------------------------------------
\* Properties of the normalizer (SpecNormalize)
\* ------------------------------------------------------------------------

\* C12: normalize_text is idempotent: called on what it returned, it
\* returns the same string.
C12_NormalizeIdempotent ==
    npc = "twice" => renormalized = normalized

\* C12 happens: normalize_text changed the string it was given, to a
\* string that is not empty, and the second call returned that string.
C12_Witness ==
    /\ npc = "twice"
    /\ normalized # given
    /\ Len(normalized) >= 3
    /\ \E i \in 1..Len(normalized) : normalized[i] = LF
    /\ renormalized = normalized

\* s holds the characters of the string part one after the other.
Holds(s, part) ==
    \E i \in 1..(Len(s) - Len(part) + 1) :
        SubSeq(s, i, i + Len(part) - 1) = part

\* C13: what normalize_text returns holds no soft hyphen, zero-width space,
\* non-breaking space, carriage return or tab, no two spaces in a row, no
\* space right after a line feed and no three line feeds in a row, and
\* neither starts nor ends with white space; for None and for the empty
\* string it returns the empty string.
C13_NormalizedShape ==
    npc \in {"once", "twice"} =>
        /\ \A i \in 1..Len(normalized) :
              normalized[i] \notin {SHY, ZWSP, NBSP, CR, TAB}
        /\ ~Holds(normalized, <<SP, SP>>)
        /\ ~Holds(normalized, <<LF, SP>>)
        /\ ~Holds(normalized, <<LF, LF, LF>>)
        /\ normalized # <<>> =>
              (~IsSpace(normalized[1]) /\ ~IsSpace(normalized[Len(normalized)]))
        /\ given \in {None, <<>>} => normalized = <<>>

\* C13 happens: a string with a tab, carriage returns and a non-breaking
\* space, and with white space at its end, was normalized to a string of
\* more than one line.
C13_Witness ==
    /\ npc = "once"
    /\ \E i \in 1..Len(given) : given[i] = TAB
    /\ \E i \in 1..Len(given) : given[i] = CR
    /\ \E i \in 1..Len(given) : given[i] = NBSP
    /\ IsSpace(given[Len(given)])
    /\ Holds(normalized, <<LF>>)

\* ------------------------------------------------------------------------
\* More properties of the conversation (Spec)
\* ------------------------------------------------------------------------

\* C14: a document whose extraction returned an empty text is answered with
\* the "no readable text" reply and nothing else, no page among it; and a
\* document whose extraction was run, however it ended, has been answered
\* with at least one reply.
C14_EmptyTextIsReported ==
    \A t \in 1..Len(tasks) :
        /\ (tasks[t].extraction = "returned" /\ tasks[t].text = <<>>) =>
              /\ tasks[t].replies = <<Literal("no_readable_text")>>
              /\ tasks[t].pc \in {"answer_no_text", "returned"}
        /\ tasks[t].extraction # "none" => tasks[t].replies # <<>>

\* C14 happens: the handler of a document without text has returned.
C14_Witness ==
    \E t \in 1..Len(tasks) :
        /\ tasks[t].extraction = "returned"
        /\ tasks[t].text = <<>>
        /\ tasks[t].pc = "returned"
        /\ tasks[t].replies = <<Literal("no_readable_text")>>

\* ------------------------------------------------------------------------
\* Properties of the cut position and of the loops (SpecChunk)
\* ------------------------------------------------------------------------

\* The cut the claim C15 describes: the right-most line break at or before
\* offset 3500, else the right-most space at or before it, else 3500.
CutAtOrBeforeBoundary(s) ==
    IF rfind(s, LF, 0, 3501) # -1 THEN rfind(s, LF, 0, 3501)
    ELSE IF rfind(s, SP, 0, 3501) # -1 THEN rfind(s, SP, 0, 3501)
    ELSE 3500

\* C15: when the remaining text is longer than the budget, the pass cuts
\* at the right-most line break at or before offset 3500 (so that a line
\* break at offset 3500 makes the chunk the first 3500 characters), else
\* at the right-most space at or before it, else at offset 3500; stated of
\* the chunk and the rest the pass makes.  This is the claim as it was
\* made, and it does not hold: lines 135 and 137 search offsets 0..3499.
C15_AsClaimed_CutAtOrBeforeBoundary ==
    [][(pc = "while" /\ Len(remaining) > 3500) =>
          LET cut == CutAtOrBeforeBoundary(remaining)
          IN  /\ chunks' = Append(chunks, rstrip(SubSeq(remaining, 1, cut)))
              /\ remaining' = lstrip(SubSeq(remaining, cut + 1, Len(remaining)))
              /\ remaining[3501] = LF =>
                    chunks'[Len(chunks')] = rstrip(SubSeq(remaining, 1, 3500))]_vars

\* The offsets below 3500 at which s holds the character c.
OffsetsBelowBoundary(s, c) == {i \in 0..3499 : i < Len(s) /\ s[i + 1] = c}

Highest(S) == CHOOSE i \in S : \A j \in S : j <= i

\* C15 (amended): when the remaining text is longer than the budget, the
\* pass cuts at the right-most line break among the offsets 0..3499, the
\* first 3500 characters; if there is none, at the right-most space among
\* them; if there is neither, at offset 3500.  The character at offset
\* 3500 is not looked at: the chunk is the text before the cut less its
\* trailing white space, the rest is the text from the cut on less its
\* leading white space.
C15_CutBeforeBoundary ==
    [][(pc = "while" /\ Len(remaining) > 3500) =>
          LET nl == OffsetsBelowBoundary(remaining, LF)
              sp == OffsetsBelowBoundary(remaining, SP)
              cut == IF nl # {} THEN Highest(nl)
                     ELSE IF sp # {} THEN Highest(sp)
                     ELSE 3500
          IN  /\ split_at' = cut
              /\ chunks' = Append(chunks, rstrip(SubSeq(remaining, 1, cut)))
              /\ remaining' = lstrip(SubSeq(remaining, cut + 1, Len(remaining)))]_vars

\* C15 happens: the text has a line break at offset 3500 and a space or a
\* line break before it, and its first cut was made at the earlier one.
C15_Witness ==
    /\ pc = "while"
    /\ Len(chunks) = 1
    /\ Len(text) > 3501
    /\ text[3501] = LF
    /\ split_at >= 0
    /\ split_at < 3500
    /\ chunks[1] = SubSeq(text, 1, split_at)

\* The page message that carries the page index i and the whole chunk c.
PageOf(i, c) ==
    date_label \o <<SP, BULLET, SP>> \o PageWord \o <<SP>> \o Digits(i)
        \o <<LF, LF>> \o c

\* C16: the page messages are sent one at a time and none is taken back,
\* the i-th one sent carries the page index i and the i-th chunk, and when
\* the for loop has ended there are as many pages as chunks.
C16_PagesInOrder ==
    [][/\ Len(pages') \in {Len(pages), Len(pages) + 1}
       /\ SubSeq(pages', 1, Len(pages)) = pages
       /\ Len(pages') <= Len(chunks')
       /\ \A i \in 1..Len(pages') : pages'[i] = PageOf(i, chunks'[i])
       /\ pc' = "done" => Len(pages') = Len(chunks')]_vars

\* C16 happens: the three pages of a text of three different chunks have
\* been sent.
C16_Witness ==
    /\ pc = "done"
    /\ Len(chunks) = 3
    /\ Len(pages) = 3
    /\ chunks[1] # chunks[2]
    /\ chunks[2] # chunks[3]
    /\ pages[3] = PageOf(3, chunks[3])

\* ------------------------------------------------------------------------
\* Termination of the loops (SpecChunkFair)
\* ------------------------------------------------------------------------

\* C17: every pass of the while loop on a text longer than the budget
\* leaves a strictly shorter remaining text and appends a chunk of at least
\* one character, no chunk is ever empty, and the handler gets to its end.
C17_LoopTerminatesWithoutEmptyChunk ==
    /\ [][(pc = "while" /\ Len(remaining) > 3500) =>
             /\ Len(remaining') < Len(remaining)
             /\ Len(chunks') = Len(chunks) + 1
             /\ Len(chunks'[Len(chunks')]) >= 1]_vars
    /\ [](\A i \in 1..Len(chunks) : chunks[i] # <<>>)
    /\ <>(pc \in {"no_text", "done"})

\* C17 happens: a text longer than the budget was cut at offset 1, the
\* earliest offset a line break or space can have, into a chunk of one
\* character and a shorter rest.
C17_Witness ==
    /\ pc = "while"
    /\ Len(text) > 3500
    /\ Len(chunks) = 1
    /\ split_at = 1
    /\ Len(chunks[1]) = 1
    /\ Len(remaining) < Len(text)
    /\ remaining # <<>>

\* ------------------------------------------------------------------------
\* The body of a page (SpecChunk)
\* ------------------------------------------------------------------------

\* C18: the body of every page sent is its chunk in full, nothing cut off,
\* because the lengths of a chunk and of its header together are at most
\* 4096.
C18_BodyIsWholeChunk ==
    \A i \in 1..Len(pages) :
        LET header == Header(date_label, i)
        IN  /\ Len(chunks[i]) + Len(header) <= 4096
            /\ Len(pages[i]) = Len(header) + Len(chunks[i])
            /\ SubSeq(pages[i], Len(header) + 1, Len(pages[i])) = chunks[i]

\* C18 happens: the first page of a text has been built from a chunk that
\* fills the budget, and ends with the chunk's last character.
C18_Witness ==
    /\ pc = "for"
    /\ Len(pages) = 1
    /\ Len(chunks) > 1
    /\ Len(chunks[1]) = 3500
    /\ Len(pages[1]) = 3500 + Len(Header(date_label, 1))
    /\ pages[1][Len(pages[1])] = chunks[1][3500]

\* ------------------------------------------------------------------------
\* Interleaved handlers (Spec)
\* ------------------------------------------------------------------------

IsResumeCommand(tk) == tk.handler = "handle_resume_command"

\* The handler of a document with a supported extension: the document has
\* been accepted, get_file is or was on its way.
IsAccepted(tk) ==
    tk.handler = "handle_resume_file" /\ tk.extension \in {PDF, DOCX}

\* C19: of the documents accepted after one /resume and before the next,
\* at most one is extracted, however the handlers interleave.  The code
\* does not keep this: the state stays waiting_for_file until line 119, so
\* a document that arrives while the first one is being fetched (lines
\* 104-106) is accepted and extracted too.
C19_OneExtractionPerResume ==
    \A t1, t2 \in 1..Len(tasks) :
        (/\ t1 < t2
         /\ IsAccepted(tasks[t1])
         /\ IsAccepted(tasks[t2])
         /\ \A r \in (t1 + 1)..(t2 - 1) : ~IsResumeCommand(tasks[r]))
        => ~(tasks[t1].extraction # "none" /\ tasks[t2].extraction # "none")

\* C20: after a /resume the state is waiting_for_file for as long as no
\* document that arrived after it has been accepted.  The code does not
\* keep this: the handler of a document that arrived before the /resume
\* clears the state on line 119 when its download or its failure reply
\* returns.
C20_ResumeIsNotLost ==
    \A r \in 1..Len(tasks) :
        (/\ IsResumeCommand(tasks[r])
         /\ \A t \in (r + 1)..Len(tasks) : ~IsAccepted(tasks[t]))
        => fsm = "waiting_for_file"

=============================================================================
